---- MODULE Spec2Model ----
(***************************************************************************)
(* discord-streamalert: the webhook gateway (src/twitch/webhooks.ts), the  *)
(* stream state tracker (src/stream_manager.ts) and the subscription       *)
(* registry with its token cache (src/twitch/twitch_api.ts).               *)
(*                                                                         *)
(* The process is a single Node.js event loop.  A step of the model is one *)
(* run-to-completion segment of JavaScript: the code between two awaits.   *)
(* An awaited call to Discord, Twitch or the Keyv store is resolved by the *)
(* action that runs the continuation; its outcome is an input of that      *)
(* action.  Segments of different handlers interleave freely, as promises  *)
(* of different requests resolve in any order.                             *)
(***************************************************************************)
EXTENDS Integers, Sequences, FiniteSets, TLC

\* ---------------------------------------------------------------- bounds
\* Requests the webserver receives in one run of the process.
MaxRequests == 2
\* Requests the registry sends to Twitch in one run of the process.
MaxCalls == 7

\* ------------------------------------------------------------ configuration
\* Tracked broadcasters (cfg['streams']): Twitch id -> login / display name.
Broadcasters == {"b1", "b2"}
Login(b) == IF b = "b1" THEN "foo" ELSE "bar"
DisplayName(b) == IF b = "b1" THEN "Foo" ELSE "Bar"
Logins == {Login(b) : b \in Broadcasters}

\* cfg['stream_category']
StreamCategory == "Just Chatting"
\* Categories Twitch reports (game_name / category_name).
Categories == {"just chatting", "Art"}

\* String.prototype.toLowerCase on the strings above.
ToLowerCase(s) ==
    CASE s = "Just Chatting" -> "just chatting"
      [] s = "Art" -> "art"
      [] OTHER -> s

\* category.toLowerCase() === cfg['stream_category'].toLowerCase()
CategoryMatches(category) == ToLowerCase(category) = ToLowerCase(StreamCategory)

\* `undefined` for a message id / an object id; ids are positive.
Undefined == 0

\* _onlineStreams[broadcasterId] === undefined
NoStream == [oid |-> 0, broadcasterName |-> "", category |-> "", messageId |-> Undefined]

\* interface StreamEvent; oid is the identity of the JavaScript object.
StreamEvent(oid, name, category, messageId) ==
    [oid |-> oid, broadcasterName |-> name, category |-> category, messageId |-> messageId]

\* ------------------------------------------------------------------ state
VARIABLES
    onlineStreams,  \* StreamManager._onlineStreams: broadcasterId -> StreamEvent
    cache,          \* StreamManager._cache (Keyv, namespace streamManager): set of [id, login]
    channel,        \* messages in the notification channel: set of [id, login]
    roles,          \* logins whose guild member holds the streamer role
    roleOps,        \* role calls started and not yet finished: login -> [grant, revoke]
    handlers,       \* request number -> the handler run it started
    nreq,           \* requests received so far
    nextId,         \* next Discord message id
    cleanup,        \* the run of cleanupMessagesAndRoles started by the constructor
    bootCache,      \* the persisted alert ids found when the process started
    lastCategory,   \* broadcasterId -> category last reported for it
    warnings,       \* broadcasterId -> number of logger.warn calls of onStreamOnline
    roleFailed,     \* a role call has failed
    lastReq,        \* the request handled last and what the gateway did with it
    flows,          \* login -> the run of subscribeToStreamUpdates started for it
    appToken,       \* TwitchApi._cache 'appToken' (Keyv, namespace twitchApi); 0: none
    subs,           \* TwitchApi._cache: broadcasterId -> cached subscriptions
    validTokens,    \* the app tokens Twitch accepts
    nextToken,      \* the next app token Twitch issues
    nextSub,        \* the next subscription id Twitch issues
    ncalls          \* requests sent to Twitch so far

\* The state of the registry and of Twitch.
registryVars == <<flows, appToken, subs, validTokens, nextToken, nextSub, ncalls>>

\* The state of the gateway, the tracker and Discord.
gatewayVars == <<onlineStreams, cache, channel, roles, roleOps, handlers, nreq, nextId,
                 cleanup, bootCache, lastCategory, warnings, roleFailed, lastReq>>

vars == <<gatewayVars, registryVars>>

trackerVars == <<onlineStreams, cache, channel, roles, roleOps, nextId,
                 cleanup, bootCache, lastCategory, warnings, roleFailed>>

Slots == 1..MaxRequests

\* A slot no handler runs in.
\* from: what the tracker held for the broadcaster when the handler started;
\* log: what the handler has done so far (delete: a message delete attempted,
\* unpersist: the id removed from the store, fetch: the stream info asked for,
\* send: an alert posted, persist: its id stored, grant / revoke: the role call
\* started).
IdleHandler ==
    [kind |-> "", b |-> "", category |-> "", pc |-> "idle", msgID |-> Undefined,
     info |-> "", ref |-> 0, sent |-> Undefined, res |-> <<>>,
     alone |-> TRUE, fail |-> FALSE, from |-> "", log |-> <<>>]

Active(h) == h.pc \notin {"idle", "done", "rejected"}

\* Some handler of broadcaster b is between its first statement and its end.
InFlight(b) == \E i \in Slots : Active(handlers[i]) /\ handlers[i].b = b

\* ------------------------------------------------------------ the gateway
\* 'Twitch-Eventsub-Message-Type' values; "other" is any other value.
MessageTypes == {"notification", "webhook_callback_verification", "revocation", "other"}
Routes == {"/online", "/offline", "/update"}
\* What the sender put in 'Twitch-Eventsub-Message-Signature'.
SignatureKinds == {"missing", "valid", "forged", "short"}

HMAC_PREFIX == "sha256="
\* Webhooks._secret
Secret == "webhooks_secret"

\* createHmac('sha256', secret).update(message).digest('hex'): the digest is
\* determined by (secret, message) and differs when either differs.
getHmac(secret, message) == <<secret, message>>

\* Message id header + timestamp header + raw body.
getHmacMessage(req) == <<req.id, req.timestamp, req.body>>

\* The raw JSON body Twitch sends: the event of a notification, the challenge
\* of a handshake, the subscription of a revocation.
Body(b, category) ==
    [event |-> [broadcaster_user_id |-> b, broadcaster_user_login |-> Login(b),
                broadcaster_user_name |-> DisplayName(b), category_name |-> category],
     challenge |-> "challenge-string"]

\* The signature header as a sequence of parts: the prefix and the hex digest
\* (two parts, the length of a well-formed header), nothing when the header is
\* absent, and the digest alone for a header of another length.
SignatureHeader(kind, id, timestamp, body) ==
    CASE kind = "missing" -> <<>>
      [] kind = "valid" -> <<HMAC_PREFIX, getHmac(Secret, <<id, timestamp, body>>)>>
      [] kind = "forged" -> <<HMAC_PREFIX, getHmac("not-the-secret", <<id, timestamp, body>>)>>
      [] kind = "short" -> <<getHmac(Secret, <<id, timestamp, body>>)>>

Request(route, kind, type, b, category) ==
    [route |-> route, id |-> "msg-id", timestamp |-> "ts", body |-> Body(b, category),
     signature |-> SignatureHeader(kind, "msg-id", "ts", Body(b, category)),
     type |-> type, kind |-> kind]

\* crypto.timingSafeEqual(a, b): throws a RangeError when the byte lengths differ.
timingSafeEqual(a, b) ==
    IF Len(a) # Len(b) THEN "throw" ELSE IF a = b THEN "true" ELSE "false"

\* Webhooks.verifyRequestHmac: "ok" (returns true), "403" (sends 403, returns
\* false) or "throw" (the exception leaves handleRequest and the route callback).
verifyRequestHmac(req) ==
    LET hmac == <<HMAC_PREFIX, getHmac(Secret, getHmacMessage(req))>>
        receivedHmac == req.signature
    IN  IF receivedHmac = <<>> THEN "403"
        ELSE LET valid == timingSafeEqual(hmac, receivedHmac)
             IN  CASE valid = "throw" -> "throw"
                   [] valid = "true" -> "ok"
                   [] OTHER -> "403"

Status(code, body) == [ev |-> "response", status |-> code, body |-> body]
Invoke(kind) == [ev |-> "invoke", status |-> 0, body |-> kind]
Thrown == [ev |-> "throw", status |-> 0, body |-> ""]

\* A faulty isNotification that leaves the response of a notification to the
\* handler: it sends nothing before returning true.
isNotificationSilent(req) ==
    CASE req.type = "notification" ->
            [sent |-> <<>>, notification |-> TRUE]
      [] req.type = "webhook_callback_verification" ->
            [sent |-> <<Status(200, req.body.challenge)>>, notification |-> FALSE]
      [] req.type = "revocation" ->
            [sent |-> <<Status(204, "No Content")>>, notification |-> FALSE]
      [] OTHER ->
            [sent |-> <<Status(200, "OK")>>, notification |-> FALSE]

\* A faulty isNotification that acknowledges a handshake without its challenge.
isNotificationNoEcho(req) ==
    CASE req.type = "notification" ->
            [sent |-> <<Status(200, "OK")>>, notification |-> TRUE]
      [] req.type = "webhook_callback_verification" ->
            [sent |-> <<Status(200, "OK")>>, notification |-> FALSE]
      [] req.type = "revocation" ->
            [sent |-> <<Status(204, "No Content")>>, notification |-> FALSE]
      [] OTHER ->
            [sent |-> <<Status(200, "OK")>>, notification |-> FALSE]

\* A faulty isNotification whose revocation case has no break and falls through
\* to the default case.
isNotificationFallThrough(req) ==
    CASE req.type = "notification" ->
            [sent |-> <<Status(200, "OK")>>, notification |-> TRUE]
      [] req.type = "webhook_callback_verification" ->
            [sent |-> <<Status(200, req.body.challenge)>>, notification |-> FALSE]
      [] req.type = "revocation" ->
            [sent |-> <<Status(204, "No Content"), Status(200, "OK")>>, notification |-> FALSE]
      [] OTHER ->
            [sent |-> <<Status(200, "OK")>>, notification |-> FALSE]

\* Webhooks.isNotification: the responses it sends and the value it returns.
isNotification(req) ==
    CASE req.type = "notification" ->
            [sent |-> <<Status(200, "OK")>>, notification |-> TRUE]
      [] req.type = "webhook_callback_verification" ->
            [sent |-> <<Status(200, req.body.challenge)>>, notification |-> FALSE]
      [] req.type = "revocation" ->
            [sent |-> <<Status(204, "No Content")>>, notification |-> FALSE]
      [] OTHER ->
            [sent |-> <<Status(200, "OK")>>, notification |-> FALSE]

\* A faulty route table: /update registered with the stream.offline handler.
RouteHandlerSwapped(route) ==
    CASE route = "/online" -> "online"
      [] route = "/offline" -> "offline"
      [] route = "/update" -> "offline"

\* startWebserver: the handler each route passes to handleRequest.
RouteHandler(route) ==
    CASE route = "/online" -> "online"
      [] route = "/offline" -> "offline"
      [] route = "/update" -> "update"

\* ------------------------------------------------------------ the tracker
\* A handler run starts in slot i.  It ran alone if no other handler of the same
\* broadcaster was in flight at any moment between its start and its end.
Begin(i, h) ==
    handlers' = [j \in Slots |->
        IF j = i THEN [h EXCEPT !.alone = ~InFlight(h.b)]
        ELSE IF Active(handlers[j]) /\ handlers[j].b = h.b
             THEN [handlers[j] EXCEPT !.alone = FALSE]
             ELSE handlers[j]]

\* The state of the tracker for one broadcaster: no StreamEvent (absent), a
\* StreamEvent without messageId (untracked) or with one (alerted).
LiveState(ev) ==
    IF ev = NoStream THEN "absent"
    ELSE IF ev.messageId = Undefined THEN "untracked" ELSE "alerted"

NewHandler(kind, b, category, res) ==
    [IdleHandler EXCEPT !.kind = kind, !.b = b, !.category = category, !.res = res,
                        !.from = LiveState(onlineStreams[b])]

\* removeStreamerRole(login) / grantStreamerRole(login) is called and not awaited.
StartRoleCall(login, op) ==
    roleOps' = [roleOps EXCEPT ![login][op] = @ + 1]

\* A faulty onStreamOnline without the teardown of lines 173-180: it goes
\* straight to getStreamInfo.
onStreamOnlineNoTeardown(i, b, res) ==
    /\ Begin(i, [NewHandler("online", b, "", res) EXCEPT !.pc = "getStreamInfo"])
    /\ UNCHANGED <<onlineStreams, cache, channel, roles, roleOps, nextId, cleanup, bootCache,
                   lastCategory, warnings, roleFailed>>

\* onStreamOnline up to its first await (lines 171-182).
onStreamOnline(i, b, res) ==
    LET ev == onlineStreams[b]
        h == NewHandler("online", b, "", res)
    IN  /\ IF ev # NoStream
           THEN /\ warnings' = [warnings EXCEPT ![b] = @ + 1]
                /\ IF ev.messageId # Undefined
                   THEN /\ Begin(i, [h EXCEPT !.pc = "deleteMessage", !.msgID = ev.messageId])
                        /\ UNCHANGED onlineStreams
                   ELSE /\ Begin(i, [h EXCEPT !.pc = "getStreamInfo"])
                        /\ onlineStreams' = [onlineStreams EXCEPT ![b] = NoStream]
           ELSE /\ Begin(i, [h EXCEPT !.pc = "getStreamInfo"])
                /\ UNCHANGED <<warnings, onlineStreams>>
        /\ UNCHANGED <<cache, channel, roles, roleOps, nextId, cleanup, bootCache, lastCategory,
                       roleFailed>>

\* A faulty onStreamOffline that forgets the StreamEvent only after it has
\* deleted an alert: one without messageId stays.
onStreamOfflineAlertedOnly(i, b, res) ==
    LET ev == onlineStreams[b]
        h == NewHandler("offline", b, "", res)
    IN  /\ IF ev # NoStream /\ ev.messageId # Undefined
           THEN Begin(i, [h EXCEPT !.pc = "deleteMessage", !.msgID = ev.messageId])
           ELSE Begin(i, [h EXCEPT !.pc = "done"])
        /\ UNCHANGED <<onlineStreams, roleOps, cache, channel, roles, nextId, cleanup, bootCache,
                       lastCategory, warnings, roleFailed>>

\* onStreamOffline up to its first await (lines 205-214).
onStreamOffline(i, b, res) ==
    LET ev == onlineStreams[b]
        h == NewHandler("offline", b, "", res)
    IN  /\ IF ev # NoStream
           THEN IF ev.messageId # Undefined
                THEN /\ Begin(i, [h EXCEPT !.pc = "deleteMessage", !.msgID = ev.messageId])
                     /\ UNCHANGED <<onlineStreams, roleOps>>
                ELSE /\ Begin(i, [h EXCEPT !.pc = "done", !.log = <<"revoke">>])
                     /\ StartRoleCall(Login(b), "revoke")
                     /\ onlineStreams' = [onlineStreams EXCEPT ![b] = NoStream]
           ELSE /\ Begin(i, [h EXCEPT !.pc = "done"])
                /\ UNCHANGED <<onlineStreams, roleOps>>
        /\ UNCHANGED <<cache, channel, roles, nextId, cleanup, bootCache, lastCategory, warnings,
                       roleFailed>>

\* A faulty onChannelUpdate that posts an alert for every update of a stream
\* without one, whatever the category.
onChannelUpdateAnyCategory(i, b, category, res) ==
    LET ev == onlineStreams[b]
        h == NewHandler("update", b, category, res)
    IN  /\ IF ev # NoStream
           THEN IF ev.messageId # Undefined
                THEN IF ~CategoryMatches(category)
                     THEN Begin(i, [h EXCEPT !.pc = "deleteMessage", !.msgID = ev.messageId])
                     ELSE Begin(i, [h EXCEPT !.pc = "done"])
                ELSE Begin(i, [h EXCEPT !.pc = "getStreamInfo"])
           ELSE Begin(i, [h EXCEPT !.pc = "done"])
        /\ lastCategory' = [lastCategory EXCEPT ![b] = category]
        /\ UNCHANGED <<onlineStreams, cache, channel, roles, roleOps, nextId, cleanup,
                       bootCache, warnings, roleFailed>>

\* onChannelUpdate up to its first await (lines 225-235).
onChannelUpdate(i, b, category, res) ==
    LET ev == onlineStreams[b]
        h == NewHandler("update", b, category, res)
    IN  /\ IF ev # NoStream
           THEN IF ev.messageId # Undefined
                THEN IF ~CategoryMatches(category)
                     THEN Begin(i, [h EXCEPT !.pc = "deleteMessage", !.msgID = ev.messageId])
                     ELSE Begin(i, [h EXCEPT !.pc = "done"])
                ELSE IF CategoryMatches(category)
                     THEN Begin(i, [h EXCEPT !.pc = "getStreamInfo"])
                     ELSE Begin(i, [h EXCEPT !.pc = "done"])
           ELSE Begin(i, [h EXCEPT !.pc = "done"])
        /\ lastCategory' = [lastCategory EXCEPT ![b] = category]
        /\ UNCHANGED <<onlineStreams, cache, channel, roles, roleOps, nextId, cleanup,
                       bootCache, warnings, roleFailed>>

\* The three static handlers of Webhooks: each calls its StreamManager method
\* with the fields of the notification and does not await it.
streamOnlineHandler(i, req, res) ==
    onStreamOnline(i, req.body.event.broadcaster_user_id, res)
streamOfflineHandler(i, req, res) ==
    onStreamOffline(i, req.body.event.broadcaster_user_id, res)
channelUpdateHandler(i, req, res) ==
    onChannelUpdate(i, req.body.event.broadcaster_user_id, req.body.event.category_name, res)

\* Webhooks.handleRequest, called by the route callback of express.  An exception
\* thrown by the callback before a response is sent is answered by express
\* with status 500.
HandleRequest(route, kind, type, b, category) ==
    /\ nreq < MaxRequests
    /\ LET req == Request(route, kind, type, b, category)
           verdict == verifyRequestHmac(req)
           cls == isNotification(req)
           i == nreq + 1
       IN  /\ nreq' = i
           /\ UNCHANGED registryVars
           /\ CASE verdict = "403" ->
                     /\ lastReq' = [req |-> req, trace |-> <<Status(403, "Forbidden")>>]
                     /\ UNCHANGED <<trackerVars, handlers>>
                [] verdict = "throw" ->
                     /\ lastReq' = [req |-> req,
                                    trace |-> <<Thrown, Status(500, "Internal Server Error")>>]
                     /\ UNCHANGED <<trackerVars, handlers>>
                [] verdict = "ok" /\ ~cls.notification ->
                     /\ lastReq' = [req |-> req, trace |-> cls.sent]
                     /\ UNCHANGED <<trackerVars, handlers>>
                [] OTHER ->
                     /\ lastReq' = [req |-> req,
                                    trace |-> cls.sent \o <<Invoke(RouteHandler(route))>>]
                     /\ CASE RouteHandler(route) = "online" -> streamOnlineHandler(i, req, cls.sent)
                          [] RouteHandler(route) = "offline" -> streamOfflineHandler(i, req, cls.sent)
                          [] OTHER -> channelUpdateHandler(i, req, cls.sent)

Set(i, h) == handlers' = [handlers EXCEPT ![i] = h]

\* deleteMessage(broadcasterId, messageId) of a handler, lines 96-104 up to the
\* call of _cache.delete: fetchNotificationChannel resolves (chanOk: to a text
\* channel), channel.messages.delete resolves or fails (every failure is
\* swallowed by the catch), and messageId of the current StreamEvent is unset.
DeleteMessageDone(i, chanOk, delOk) ==
    LET h == handlers[i]
        gone == chanOk /\ delOk
        there == \E m \in channel : m.id = h.msgID
    IN  /\ h.pc = "deleteMessage"
        /\ channel' = IF gone THEN {m \in channel : m.id # h.msgID} ELSE channel
        /\ onlineStreams' = IF onlineStreams[h.b] # NoStream
                            THEN [onlineStreams EXCEPT ![h.b].messageId = Undefined]
                            ELSE onlineStreams
        /\ Set(i, [h EXCEPT !.pc = "cacheDelete", !.fail = @ \/ (there /\ ~gone),
                            !.log = Append(@, "delete")])
        /\ UNCHANGED <<cache, roles, roleOps, nreq, nextId, cleanup, bootCache,
                       lastCategory, warnings, roleFailed, lastReq, registryVars>>

\* A faulty end of deleteMessage in onChannelUpdate that forgets the StreamEvent
\* as onStreamOffline does.
CacheDeleteDoneForgets(i) ==
    LET h == handlers[i]
    IN  /\ h.pc = "cacheDelete"
        /\ cache' = {m \in cache : m.id # h.msgID}
        /\ CASE h.kind = "online" ->
                  /\ onlineStreams' = [onlineStreams EXCEPT ![h.b] = NoStream]
                  /\ Set(i, [h EXCEPT !.pc = "getStreamInfo", !.log = Append(@, "unpersist")])
                  /\ UNCHANGED roleOps
             [] h.kind = "offline" ->
                  /\ StartRoleCall(Login(h.b), "revoke")
                  /\ onlineStreams' = [onlineStreams EXCEPT ![h.b] = NoStream]
                  /\ Set(i, [h EXCEPT !.pc = "done", !.log = @ \o <<"unpersist", "revoke">>])
             [] OTHER ->
                  /\ StartRoleCall(Login(h.b), "revoke")
                  /\ onlineStreams' = [onlineStreams EXCEPT ![h.b] = NoStream]
                  /\ Set(i, [h EXCEPT !.pc = "done", !.log = @ \o <<"unpersist", "revoke">>])
        /\ UNCHANGED <<channel, roles, nreq, nextId, cleanup, bootCache,
                       lastCategory, warnings, roleFailed, lastReq, registryVars>>

\* _cache.delete(messageId) resolves (line 104), deleteMessage returns and the
\* handler runs to its next await or to its end: onStreamOnline 179-182,
\* onStreamOffline 212-213, onChannelUpdate 232.
CacheDeleteDone(i) ==
    LET h == handlers[i]
    IN  /\ h.pc = "cacheDelete"
        /\ cache' = {m \in cache : m.id # h.msgID}
        /\ CASE h.kind = "online" ->
                  /\ onlineStreams' = [onlineStreams EXCEPT ![h.b] = NoStream]
                  /\ Set(i, [h EXCEPT !.pc = "getStreamInfo", !.log = Append(@, "unpersist")])
                  /\ UNCHANGED roleOps
             [] h.kind = "offline" ->
                  /\ StartRoleCall(Login(h.b), "revoke")
                  /\ onlineStreams' = [onlineStreams EXCEPT ![h.b] = NoStream]
                  /\ Set(i, [h EXCEPT !.pc = "done", !.log = @ \o <<"unpersist", "revoke">>])
             [] OTHER ->
                  /\ StartRoleCall(Login(h.b), "revoke")
                  /\ Set(i, [h EXCEPT !.pc = "done", !.log = @ \o <<"unpersist", "revoke">>])
                  /\ UNCHANGED onlineStreams
        /\ UNCHANGED <<channel, roles, nreq, nextId, cleanup, bootCache,
                       lastCategory, warnings, roleFailed, lastReq, registryVars>>

\* What TwitchApi.getStreamInfo gives its caller: the stream info (here its
\* game_name), undefined (the call failed or Twitch lists no live stream), or
\* an exception of fetch.
StreamInfoResults == Categories \cup {"undefined", "throw"}

\* A faulty handling of the stream info that records a stream without
\* messageId when getStreamInfo gave nothing to onStreamOnline.
GetStreamInfoDoneAssumesLive(i, result) ==
    LET h == handlers[i]
    IN  /\ h.pc = "getStreamInfo"
        /\ CASE result = "throw" ->
                  /\ Set(i, [h EXCEPT !.pc = "rejected", !.fail = TRUE, !.log = Append(@, "fetch")])
                  /\ UNCHANGED <<onlineStreams, lastCategory>>
             [] result = "undefined" ->
                  /\ Set(i, [h EXCEPT !.pc = "done", !.fail = TRUE, !.log = Append(@, "fetch")])
                  /\ onlineStreams' = IF h.kind = "online"
                                      THEN [onlineStreams EXCEPT ![h.b] =
                                                StreamEvent(i, DisplayName(h.b), "", Undefined)]
                                      ELSE onlineStreams
                  /\ UNCHANGED lastCategory
             [] h.kind = "online" /\ result \in Categories ->
                  /\ lastCategory' = [lastCategory EXCEPT ![h.b] = result]
                  /\ IF CategoryMatches(result)
                     THEN /\ Set(i, [h EXCEPT !.pc = "send", !.info = result,
                                              !.log = Append(@, "fetch")])
                          /\ UNCHANGED onlineStreams
                     ELSE /\ Set(i, [h EXCEPT !.pc = "done", !.info = result,
                                              !.log = Append(@, "fetch")])
                          /\ onlineStreams' = [onlineStreams EXCEPT ![h.b] =
                                StreamEvent(i, DisplayName(h.b), result, Undefined)]
             [] OTHER ->
                  /\ Set(i, [h EXCEPT !.pc = "send", !.info = result,
                                      !.ref = onlineStreams[h.b].oid,
                                      !.log = Append(@, "fetch")])
                  /\ UNCHANGED <<onlineStreams, lastCategory>>
        /\ UNCHANGED <<cache, channel, roles, roleOps, nreq, nextId, cleanup,
                       bootCache, warnings, roleFailed, lastReq, registryVars>>

\* getStreamInfo resolves in onStreamOnline (lines 182-196 up to the call of
\* sendStreamEmbed) or in onChannelUpdate (lines 235-237; the object the
\* messageId will be stored in is the StreamEvent present now).
GetStreamInfoDone(i, result) ==
    LET h == handlers[i]
    IN  /\ h.pc = "getStreamInfo"
        /\ CASE result = "throw" ->
                  /\ Set(i, [h EXCEPT !.pc = "rejected", !.fail = TRUE, !.log = Append(@, "fetch")])
                  /\ UNCHANGED <<onlineStreams, lastCategory>>
             [] result = "undefined" ->
                  /\ Set(i, [h EXCEPT !.pc = "done", !.fail = TRUE, !.log = Append(@, "fetch")])
                  /\ UNCHANGED <<onlineStreams, lastCategory>>
             [] h.kind = "online" /\ result \in Categories ->
                  /\ lastCategory' = [lastCategory EXCEPT ![h.b] = result]
                  /\ IF CategoryMatches(result)
                     THEN /\ Set(i, [h EXCEPT !.pc = "send", !.info = result,
                                              !.log = Append(@, "fetch")])
                          /\ UNCHANGED onlineStreams
                     ELSE /\ Set(i, [h EXCEPT !.pc = "done", !.info = result,
                                              !.log = Append(@, "fetch")])
                          /\ onlineStreams' = [onlineStreams EXCEPT ![h.b] =
                                StreamEvent(i, DisplayName(h.b), result, Undefined)]
             [] OTHER ->
                  /\ Set(i, [h EXCEPT !.pc = "send", !.info = result,
                                      !.ref = onlineStreams[h.b].oid,
                                      !.log = Append(@, "fetch")])
                  /\ UNCHANGED <<onlineStreams, lastCategory>>
        /\ UNCHANGED <<cache, channel, roles, roleOps, nreq, nextId, cleanup,
                       bootCache, warnings, roleFailed, lastReq, registryVars>>

\* sendStreamEmbed lines 77-83: fetchNotificationChannel resolves and
\* channel.send resolves.  With no channel, channel.send is a TypeError; that
\* and a failed send reject sendStreamEmbed and with it the handler.
SendDone(i, chanOk, sendOk) ==
    LET h == handlers[i]
    IN  /\ h.pc = "send"
        /\ IF chanOk /\ sendOk
           THEN /\ channel' = channel \cup {[id |-> nextId, login |-> Login(h.b)]}
                /\ nextId' = nextId + 1
                /\ Set(i, [h EXCEPT !.pc = "cacheSet", !.sent = nextId, !.log = Append(@, "send")])
           ELSE /\ Set(i, [h EXCEPT !.pc = "rejected", !.fail = TRUE])
                /\ UNCHANGED <<channel, nextId>>
        /\ UNCHANGED <<onlineStreams, cache, roles, roleOps, nreq, cleanup, bootCache,
                       lastCategory, warnings, roleFailed, lastReq, registryVars>>

\* A faulty end of onChannelUpdate that does not store the id of the alert it
\* posted in the StreamEvent.
CacheSetDoneForgetsId(i) ==
    LET h == handlers[i]
    IN  /\ h.pc = "cacheSet"
        /\ cache' = cache \cup {[id |-> h.sent, login |-> Login(h.b)]}
        /\ CASE h.kind = "online" ->
                  /\ onlineStreams' = [onlineStreams EXCEPT ![h.b] =
                        StreamEvent(i, DisplayName(h.b), h.info, h.sent)]
                  /\ StartRoleCall(Login(h.b), "grant")
                  /\ Set(i, [h EXCEPT !.pc = "done", !.log = @ \o <<"persist", "grant">>])
             [] h.kind = "update" /\ h.ref = 0 ->
                  /\ Set(i, [h EXCEPT !.pc = "rejected", !.fail = TRUE, !.log = Append(@, "persist")])
                  /\ UNCHANGED <<onlineStreams, roleOps>>
             [] OTHER ->
                  /\ UNCHANGED onlineStreams
                  /\ StartRoleCall(Login(h.b), "grant")
                  /\ Set(i, [h EXCEPT !.pc = "done", !.log = @ \o <<"persist", "grant">>])
        /\ UNCHANGED <<channel, roles, nreq, nextId, cleanup, bootCache,
                       lastCategory, warnings, roleFailed, lastReq, registryVars>>

\* _cache.set(msg.id, broadcasterLogin) resolves (line 84), sendStreamEmbed
\* returns the id and the handler runs to its end: onStreamOnline 192-196,
\* onChannelUpdate 237-238.  In onChannelUpdate the id is stored in the object
\* read before the await: a TypeError if there was none, an object no longer in
\* _onlineStreams if the entry was deleted or replaced meanwhile.
CacheSetDone(i) ==
    LET h == handlers[i]
    IN  /\ h.pc = "cacheSet"
        /\ cache' = cache \cup {[id |-> h.sent, login |-> Login(h.b)]}
        /\ CASE h.kind = "online" ->
                  /\ onlineStreams' = [onlineStreams EXCEPT ![h.b] =
                        StreamEvent(i, DisplayName(h.b), h.info, h.sent)]
                  /\ StartRoleCall(Login(h.b), "grant")
                  /\ Set(i, [h EXCEPT !.pc = "done", !.log = @ \o <<"persist", "grant">>])
             [] h.kind = "update" /\ h.ref = 0 ->
                  /\ Set(i, [h EXCEPT !.pc = "rejected", !.fail = TRUE, !.log = Append(@, "persist")])
                  /\ UNCHANGED <<onlineStreams, roleOps>>
             [] OTHER ->
                  /\ onlineStreams' = IF onlineStreams[h.b].oid = h.ref
                                      THEN [onlineStreams EXCEPT ![h.b].messageId = h.sent]
                                      ELSE onlineStreams
                  /\ StartRoleCall(Login(h.b), "grant")
                  /\ Set(i, [h EXCEPT !.pc = "done", !.log = @ \o <<"persist", "grant">>])
        /\ UNCHANGED <<channel, roles, nreq, nextId, cleanup, bootCache,
                       lastCategory, warnings, roleFailed, lastReq, registryVars>>

\* grantStreamerRole / removeStreamerRole runs to its end: fetchDiscordUser
\* resolves and roles.add / roles.remove resolves (ok) or either fails and the
\* failure is logged.
RoleCallDone(login, op, ok) ==
    /\ roleOps[login][op] > 0
    /\ roleOps' = [roleOps EXCEPT ![login][op] = @ - 1]
    /\ roles' = IF ~ok THEN roles
                ELSE IF op = "grant" THEN roles \cup {login} ELSE roles \ {login}
    /\ roleFailed' = (roleFailed \/ ~ok)
    /\ UNCHANGED <<onlineStreams, cache, channel, handlers, nreq, nextId, cleanup,
                   bootCache, lastCategory, warnings, lastReq, registryVars>>

\* ------------------------------------------------------- startup cleanup
\* A key of the keyv table is "<namespace>:<key>", here the pair of the two.
KeyvRow(m) == [key |-> <<"streamManager", m.id>>, value |-> m.login]

\* SQL: s LIKE '<namespace>:%'
SqlLike(s, namespace) == s[1] = namespace

\* The rows of the statement of line 153,
\*   SELECT 'key','value' from keyv WHERE 'key' LIKE 'streamManager:%'
\* In SQL a name in single quotes is a string literal: the WHERE clause compares
\* the three-letter string key, which has no namespace prefix, and not the
\* column.
CleanupRows(table) ==
    {row \in {KeyvRow(m) : m \in table} : SqlLike(<<"", "key">>, "streamManager")}

\* cleanupMessagesAndRoles up to its await (lines 152-160): for every row a
\* deleteMessage and a removeStreamerRole are started, then _cache.clear().
StartCleanup(table) ==
    [pc |-> "clear",
     deletes |-> {row.key : row \in CleanupRows(table)},
     revokes |-> {row.value : row \in CleanupRows(table)}]

\* _cache.clear() resolves (line 160).
CleanupClearDone ==
    /\ cleanup.pc = "clear"
    /\ cache' = {}
    /\ cleanup' = [cleanup EXCEPT !.pc = "done"]
    /\ UNCHANGED <<onlineStreams, channel, roles, roleOps, handlers, nreq, nextId,
                   bootCache, lastCategory, warnings, roleFailed, lastReq, registryVars>>

\* ----------------------------------------------------------- the registry
\* The event types subscribeToStreamUpdates subscribes to, in its order.
EventTypes == <<"stream.online", "stream.offline", "channel.update">>
Types == {EventTypes[i] : i \in 1..Len(EventTypes)}

\* The Twitch id of the user with a login (the answer of the users endpoint).
UserId(login) == IF login = "foo" THEN "b1" ELSE "b2"

\* cachedSubscriptions[type] === undefined
NoRecord == [id |-> 0, status |-> ""]
NoRecs == [t \in Types |-> NoRecord]
\* await this._cache.get(broadcasterID) === undefined
NoEntry == [def |-> FALSE, recs |-> NoRecs]

\* The subscriptions Twitch lists for a broadcaster when it lists any: one per
\* event type, enabled.
RemoteSubId(b, type) ==
    (IF b = "b1" THEN 0 ELSE 3) +
    (CASE type = "stream.online" -> 1 [] type = "stream.offline" -> 2 [] OTHER -> 3)
Snapshot(b) == [t \in Types |-> [id |-> RemoteSubId(b, t), status |-> "enabled"]]

\* Broadcaster ids in the order of `for (const broadcasterId in result)`.
SnapshotOrder == <<"b1", "b2">>

\* A value passed between functions: the payload of a response, a return value
\* or an exception.  s: what it is, n: the id or token in it, entry: a cache entry.
Value(s, n) == [s |-> s, n |-> n, entry |-> NoEntry]
UndefinedValue == Value("undefined", 0)

\* The activation of an async function: fn, the await it is suspended at (pc)
\* and its locals.
\*   subscribeToStreamUpdates  x: login, y: broadcasterID
\*   getUserID                 x: username
\*   subscribeToEvent          x: type, y: broadcasterID, n: subID, loc: cachedSubscriptions
\*   getSubscriptionStatus     x: type, n: subscriptionID
\*   deleteSubscription        n: subscriptionID
\*   getAllSubscriptions       x: updateCache, y: result, n: position in the store loop
\*   getAppToken               x: validate, tok: cachedToken, y: valid, n: the token
\*                             the validation call carried, k: token, m: upstream calls
\*   validateAppToken          tok: the token in the headers
\*   makeApiCall               x: endpoint, y: errorStatusCodes, tok: the token in
\*                             options.headers, n: attemptLeft, m: calls of getAppToken(true)
NewFrame(fn) ==
    [fn |-> fn, pc |-> "start", x |-> "", y |-> "", n |-> 0, m |-> 0, k |-> 0, tok |-> 0,
     loc |-> NoRecs]

\* What one subscribeToEvent step of subscribeToStreamUpdates has done so far:
\* the cached record it found, the first status Twitch reported for it, the
\* calls it made (status, delete, create, list), the record its create returned,
\* the cached subscriptions of the broadcaster as it first read them, the
\* number of writes it made to the store and what became of its delete call
\* (ok: Twitch deleted the subscription, gone: Twitch did not know it, failed:
\* the call was refused for another reason); pages: the pages Twitch served to
\* its first status lookup.
NoStep ==
    [type |-> "", had |-> NoRecord, remote |-> "", log |-> <<>>, created |-> NoRecord,
     view |-> NoRecs, writes |-> 0, deleted |-> "", pages |-> <<>>]

\* What the last completed call of getAppToken did.
NoTokenRun ==
    [validate |-> "", cached |-> 0, checked |-> 0, valid |-> "", new |-> 0, ret |-> 0,
     calls |-> 0]

\* A run of subscribeToStreamUpdates: its call stack (the innermost activation
\* last), its outcome (idle, running, done: the promise is fulfilled, rejected:
\* the promise is rejected) and a record of what it did (lists: the calls of
\* getAllSubscriptions it completed, listed: what the last of them got from
\* Twitch, "all" or "empty", creates: the broadcaster ids and event types it has
\* sent a create call for, made: the subscriptions its create calls returned,
\* listedAt: the id Twitch would give the next new subscription at the moment
\* its last list of all subscriptions was answered, 0 with no such list).
IdleFlow ==
    [stack |-> <<>>, outcome |-> "idle", unknown |-> FALSE, authFailed |-> FALSE,
     failed |-> FALSE, writes |-> 0, step |-> NoStep, prev |-> NoStep,
     tokenRun |-> NoTokenRun, lists |-> 0, listed |-> "", creates |-> {},
     made |-> {}, listedAt |-> 0]

Top(fl) == fl.stack[Len(fl.stack)]
SetTop(fl, fr) == [fl EXCEPT !.stack[Len(fl.stack)] = fr]
Pop(fl) == [fl EXCEPT !.stack = SubSeq(@, 1, Len(@) - 1)]
Push(fl, fr) == [fl EXCEPT !.stack = Append(@, fr)]
Log(fl, op, n) == [fl EXCEPT !.step.log = Append(@, [op |-> op, n |-> n])]

\* Go(fl, mode, val) runs the flow from the moment its innermost activation is
\* called (mode "call"), gets the value val of what it awaited (mode "return")
\* or gets the exception val (mode "throw"), up to the next await.
RECURSIVE Go(_, _, _)

\* The innermost activation suspends at an await.
Await(fl, pc) == SetTop(fl, [Top(fl) EXCEPT !.pc = pc])
\* The innermost activation, now at pc, calls a function and awaits it.
Call(fl, pc, fr) == Go(Push(Await(fl, pc), fr), "call", UndefinedValue)
\* The innermost activation returns val to its caller.
Return(fl, val) == Go(Pop(fl), "return", val)
\* The innermost activation throws.
Throw(fl, err) == Go(fl, "throw", Value(err, 0))

GetAppTokenFrame(validate) == [NewFrame("getAppToken") EXCEPT !.x = validate]
\* makeApiCall(url, options, errorStatusCodes): attemptLeft = 2.
ApiCallFrame(endpoint, tok, errorStatusCodes) ==
    [NewFrame("makeApiCall") EXCEPT !.x = endpoint, !.tok = tok, !.y = errorStatusCodes, !.n = 2]

\* TwitchApi.getAppToken(validate); getHeaders is getAppToken(false) put in a header.
getAppToken(fl, val) ==
    LET top == Top(fl)
        done(fr, ret) ==
            Return([fl EXCEPT !.tokenRun =
                        [validate |-> fr.x, cached |-> fr.tok, checked |-> fr.n,
                         valid |-> fr.y, new |-> fr.k, ret |-> ret, calls |-> fr.m]],
                   Value("token", ret))
        exchange(fr) ==
            Call(SetTop(fl, [fr EXCEPT !.m = @ + 1]), "exchange", ApiCallFrame("TOKEN", 0, ""))
    IN  CASE top.pc = "start" -> Await(fl, "get")
          [] top.pc = "get" ->
                LET fr == [top EXCEPT !.tok = val.n]
                IN  IF val.n # 0
                    THEN IF top.x = "true"
                         THEN Call(SetTop(fl, [fr EXCEPT !.m = @ + 1]), "validate",
                                   NewFrame("validateAppToken"))
                         ELSE done(fr, val.n)
                    ELSE exchange(fr)
          [] top.pc = "validate" ->
                LET fr == [top EXCEPT !.y = val.s, !.n = val.n]
                IN  IF val.s = "true" THEN done(fr, top.tok) ELSE exchange(fr)
          [] top.pc = "exchange" ->
                IF val.s = "undefined" THEN Throw(fl, "TypeError")
                ELSE Await(SetTop(fl, [top EXCEPT !.k = val.n]), "set")
          [] top.pc = "set" -> done(top, top.k)

\* TwitchApi.validateAppToken: res.ok of the validation call, and the token it carried.
validateAppToken(fl, val) ==
    LET top == Top(fl)
    IN  CASE top.pc = "start" -> Call(fl, "headers", GetAppTokenFrame("false"))
          [] top.pc = "headers" -> Await(SetTop(fl, [top EXCEPT !.tok = val.n]), "fetch")
          [] top.pc = "fetch" -> Return(fl, Value(val.s, top.tok))

\* TwitchApi.makeApiCall: val is the response of fetch(url, options), the same
\* options in every attempt.
makeApiCall(fl, val) ==
    LET top == Top(fl)
        answered(v) == IF top.x = "DELETE" THEN [fl EXCEPT !.step.deleted = v] ELSE fl
    IN  CASE top.pc = "start" -> Await(fl, "fetch")
          [] top.pc = "fetch" ->
                CASE val.s = "401" ->
                        Call(SetTop(fl, [top EXCEPT !.m = @ + 1]), "refresh", GetAppTokenFrame("true"))
                  [] val.s = "409" /\ top.y = "409" -> Throw(fl, "TwitchApiError")
                  [] val.s = "gone" -> Return(answered("gone"), UndefinedValue)
                  [] val.s \in {"409", "fail"} -> Return(answered("failed"), UndefinedValue)
                  [] OTHER -> Return(answered("ok"), val)
          [] top.pc = "refresh" ->
                IF top.n - 1 = 0
                THEN Return([answered("failed") EXCEPT !.authFailed = TRUE], UndefinedValue)
                ELSE Await(SetTop(fl, [top EXCEPT !.n = @ - 1]), "fetch")

\* TwitchApi.getUserID
getUserID(fl, val) ==
    LET top == Top(fl)
    IN  CASE top.pc = "start" -> Call(fl, "headers", GetAppTokenFrame("false"))
          [] top.pc = "headers" -> Call(fl, "call", ApiCallFrame("USERS", val.n, ""))
          [] top.pc = "call" ->
                CASE val.s = "undefined" -> Throw(fl, "TypeError")
                  [] val.s = "none" -> Return([fl EXCEPT !.unknown = TRUE], UndefinedValue)
                  [] OTHER -> Return(fl, Value(UserId(top.x), 0))

\* The payload of a page of the subscriptions of a type, as asked for by the
\* lookup of id: its data and res['pagination']['cursor'] ("undefined": the
\* pagination object has no cursor).  Every page lists a subscription that is
\* not the one looked for; the pages named by a status list the one looked for
\* after it, with that status.
StatusPage(ans, id) ==
    LET other == [id |-> id + 1, status |-> "enabled"]
    IN  CASE ans = "absent" -> [data |-> <<other>>, cursor |-> "undefined"]
          [] ans = "last" -> [data |-> <<other>>, cursor |-> ""]
          [] ans = "more" -> [data |-> <<other>>, cursor |-> "cursor"]
          [] OTHER -> [data |-> <<other, [id |-> id, status |-> ans]>>, cursor |-> "cursor"]

\* The for loop of lines 163-167: the status of the first subscription of data
\* with the id, "" when the loop ends without one.
RECURSIVE FindSub(_, _)
FindSub(data, id) ==
    IF data = <<>> THEN ""
    ELSE IF Head(data).id = id THEN Head(data).status
    ELSE FindSub(Tail(data), id)

\* A faulty end of the scan that takes the empty cursor for a cursor.
ScanEndsOnAbsent(cursor) == cursor = "undefined"

\* Lines 169-171: the scan ends when the cursor is absent or empty.
ScanEnds(cursor) == (IF cursor = "" THEN "undefined" ELSE cursor) = "undefined"

\* TwitchApi.getSubscriptionStatus: one call per page until the id is found or
\* the cursor is empty.
getSubscriptionStatus(fl, val) ==
    LET top == Top(fl)
        page == StatusPage(val.s, top.n)
        status == FindSub(page.data, top.n)
        fl1 == IF fl.step.remote = "" THEN [fl EXCEPT !.step.pages = Append(@, val.s)] ELSE fl
    IN  CASE top.pc = "start" -> Call(fl, "headers", GetAppTokenFrame("false"))
          [] top.pc = "headers" -> Call(fl, "call", ApiCallFrame("STATUS", val.n, ""))
          [] top.pc = "call" ->
                CASE val.s = "undefined" -> Throw(fl, "TypeError")
                  [] status # "" -> Return(fl1, Value(status, 0))
                  [] ScanEnds(page.cursor) -> Return(fl1, Value("not_exists", 0))
                  [] OTHER -> Call(fl1, "headers", GetAppTokenFrame("false"))

\* TwitchApi.deleteSubscription: the result of the call is not looked at.
deleteSubscription(fl, val) ==
    LET top == Top(fl)
    IN  CASE top.pc = "start" -> Call(fl, "headers", GetAppTokenFrame("false"))
          [] top.pc = "headers" -> Call(fl, "call", ApiCallFrame("DELETE", val.n, ""))
          [] top.pc = "call" -> Return(fl, UndefinedValue)

\* TwitchApi.getAllSubscriptions(updateCache)
getAllSubscriptions(fl, val) ==
    LET top == Top(fl)
        result == IF val.s = "all" THEN "all" ELSE top.y
        done(res) ==
            Return([fl EXCEPT !.lists = @ + 1, !.listed = IF res = "all" THEN "all" ELSE "empty"],
                   Value(res, 0))
    IN  CASE top.pc = "start" -> Call(fl, "headers", GetAppTokenFrame("false"))
          [] top.pc = "headers" -> Call(fl, "call", ApiCallFrame("LIST", val.n, ""))
          [] top.pc = "call" ->
                CASE val.s = "undefined" -> Throw(fl, "TypeError")
                  [] val.s = "more" ->
                        Call(SetTop(fl, [top EXCEPT !.y = result]), "headers", GetAppTokenFrame("false"))
                  [] top.x = "true" /\ result = "all" ->
                        Await(SetTop([fl EXCEPT !.listedAt = val.n],
                                     [top EXCEPT !.y = result, !.n = 1]), "store")
                  [] OTHER -> done(result)
          [] top.pc = "store" ->
                IF top.n = Len(SnapshotOrder) THEN done(top.y)
                ELSE Await(SetTop(fl, [top EXCEPT !.n = @ + 1]), "store")

Pending == "webhook_callback_verification_pending"

\* subscribeToEvent lines 198-217 once the cached subscriptions are read: with a
\* cached record of the type its status is asked of Twitch, with none the
\* subscription is created.
CachedSubscriptions(fl, val) ==
    LET top == Top(fl)
        type == top.x
        recs == IF val.entry.def THEN val.entry.recs ELSE NoRecs
        seen == IF fl.step.log = <<>>
                THEN [fl EXCEPT !.step.had = recs[type], !.step.view = recs]
                ELSE fl
        fl1 == SetTop(seen, [top EXCEPT !.loc = recs, !.n = recs[type].id])
    IN  IF val.entry.def /\ recs[type] # NoRecord
        THEN Call(Log(fl1, "status", recs[type].id), "status",
                  [NewFrame("getSubscriptionStatus") EXCEPT !.x = type, !.n = recs[type].id])
        ELSE Call(fl1, "headers", GetAppTokenFrame("false"))

\* A faulty status check that takes only enabled for a live subscription and
\* replaces one whose verification is pending.
NewStatusPendingStale(fl, val) ==
    LET top == Top(fl)
        fl1 == IF fl.step.remote = "" THEN [fl EXCEPT !.step.remote = val.s] ELSE fl
    IN  CASE val.s = "enabled" -> Return(fl1, UndefinedValue)
          [] val.s # "not_exists" ->
                Call(Log(fl1, "delete", top.n), "deleted",
                     [NewFrame("deleteSubscription") EXCEPT !.n = top.n])
          [] OTHER -> Await(SetTop(fl1, [top EXCEPT !.loc[top.x] = NoRecord]), "evict")

\* A faulty status check that sends the delete for every status that is not
\* enabled or pending, a subscription that does not exist included.
NewStatusDeleteAlways(fl, val) ==
    LET top == Top(fl)
        fl1 == IF fl.step.remote = "" THEN [fl EXCEPT !.step.remote = val.s] ELSE fl
    IN  CASE val.s \in {"enabled", Pending} -> Return(fl1, UndefinedValue)
          [] OTHER ->
                Call(Log(fl1, "delete", top.n), "deleted",
                     [NewFrame("deleteSubscription") EXCEPT !.n = top.n])

\* subscribeToEvent lines 201-213: what is done with the status Twitch reports.
NewStatus(fl, val) ==
    LET top == Top(fl)
        fl1 == IF fl.step.remote = "" THEN [fl EXCEPT !.step.remote = val.s] ELSE fl
    IN  CASE val.s \in {"enabled", Pending} -> Return(fl1, UndefinedValue)
          [] val.s # "not_exists" ->
                Call(Log(fl1, "delete", top.n), "deleted",
                     [NewFrame("deleteSubscription") EXCEPT !.n = top.n])
          [] OTHER -> Await(SetTop(fl1, [top EXCEPT !.loc[top.x] = NoRecord]), "evict")

\* A faulty handling of the create response that caches the new record alone,
\* without the records of the other event types.
CreatedAlone(fl, val) ==
    LET top == Top(fl)
        rec == [id |-> val.n, status |-> Pending]
    IN  IF val.s = "undefined" THEN Throw(fl, "TypeError")
        ELSE Await(SetTop([fl EXCEPT !.step.created = rec,
                                      !.made = @ \cup {[b |-> top.y, type |-> top.x, id |-> val.n]}],
                          [top EXCEPT !.loc = [NoRecs EXCEPT ![top.x] = rec]]),
                   "store")

\* subscribeToEvent lines 228-234: the response of the create call.
Created(fl, val) ==
    LET top == Top(fl)
        rec == [id |-> val.n, status |-> Pending]
    IN  IF val.s = "undefined" THEN Throw(fl, "TypeError")
        ELSE Await(SetTop([fl EXCEPT !.step.created = rec,
                                      !.made = @ \cup {[b |-> top.y, type |-> top.x, id |-> val.n]}],
                          [top EXCEPT !.loc[top.x] = rec]),
                   "store")

\* TwitchApi.subscribeToEvent
subscribeToEvent(fl, val) ==
    LET top == Top(fl)
    IN  CASE top.pc = "start" -> Await(fl, "cacheGet")
          [] top.pc = "cacheGet" -> CachedSubscriptions(fl, val)
          [] top.pc = "status" -> NewStatus(fl, val)
          [] top.pc = "deleted" -> Await(SetTop(fl, [top EXCEPT !.loc[top.x] = NoRecord]), "evict")
          [] top.pc = "evict" -> Call(fl, "headers", GetAppTokenFrame("false"))
          [] top.pc = "headers" ->
                Call(Log([fl EXCEPT !.creates = @ \cup {<<top.y, top.x>>}], "create", 0),
                     "create", ApiCallFrame("CREATE", val.n, "409"))
          [] top.pc = "create" -> Created(fl, val)
          [] top.pc = "store" -> Return(fl, UndefinedValue)
          [] top.pc = "fix" ->
                Call(fl, "retry", [NewFrame("subscribeToEvent") EXCEPT !.x = top.x, !.y = top.y])
          [] top.pc = "retry" -> Return(fl, UndefinedValue)

\* The try of subscribeToEvent (lines 222-235) has thrown in the innermost
\* activation: the catch of lines 236-244.
Catches(fr, err) ==
    fr.fn = "subscribeToEvent" /\ fr.pc \in {"headers", "create"} /\ err.s = "TwitchApiError"
Catch(fl, err) ==
    Call(Log(fl, "list", 0), "fix", [NewFrame("getAllSubscriptions") EXCEPT !.x = "true"])

\* subscribeToStreamUpdates awaits subscribeToEvent for the i-th event type.
SubscribeStep(fl, id, i) ==
    Call([SetTop(fl, [Top(fl) EXCEPT !.y = id]) EXCEPT !.step = [NoStep EXCEPT !.type = EventTypes[i]]],
         EventTypes[i],
         [NewFrame("subscribeToEvent") EXCEPT !.x = EventTypes[i], !.y = id])

\* A faulty subscribeToStreamUpdates that does not look at the id it got.
subscribeToStreamUpdatesUnchecked(fl, val) ==
    LET top == Top(fl)
        i == CHOOSE j \in 1..Len(EventTypes) : EventTypes[j] = top.pc
        fl1 == [fl EXCEPT !.prev = fl.step]
    IN  CASE top.pc = "start" -> Call(fl, "getUserID", [NewFrame("getUserID") EXCEPT !.x = top.x])
          [] top.pc = "getUserID" -> SubscribeStep(fl, UserId(top.x), 1)
          [] i < Len(EventTypes) -> SubscribeStep(fl1, top.y, i + 1)
          [] OTHER -> Return(fl1, UndefinedValue)

\* TwitchApi.subscribeToStreamUpdates
subscribeToStreamUpdates(fl, val) ==
    LET top == Top(fl)
        i == CHOOSE j \in 1..Len(EventTypes) : EventTypes[j] = top.pc
        fl1 == [fl EXCEPT !.prev = fl.step]
    IN  CASE top.pc = "start" -> Call(fl, "getUserID", [NewFrame("getUserID") EXCEPT !.x = top.x])
          [] top.pc = "getUserID" ->
                IF val.s = "undefined" THEN Return(fl, UndefinedValue)
                ELSE SubscribeStep(fl, val.s, 1)
          [] i < Len(EventTypes) -> SubscribeStep(fl1, top.y, i + 1)
          [] OTHER -> Return(fl1, UndefinedValue)

Go(fl, mode, val) ==
    IF fl.stack = <<>>
    THEN [fl EXCEPT !.outcome = IF mode = "throw" THEN "rejected" ELSE "done"]
    ELSE LET fn == Top(fl).fn
         IN  IF mode = "throw"
             THEN IF Catches(Top(fl), val) THEN Catch(fl, val) ELSE Go(Pop(fl), "throw", val)
             ELSE CASE fn = "getAppToken" -> getAppToken(fl, val)
                    [] fn = "validateAppToken" -> validateAppToken(fl, val)
                    [] fn = "makeApiCall" -> makeApiCall(fl, val)
                    [] fn = "getUserID" -> getUserID(fl, val)
                    [] fn = "getSubscriptionStatus" -> getSubscriptionStatus(fl, val)
                    [] fn = "deleteSubscription" -> deleteSubscription(fl, val)
                    [] fn = "getAllSubscriptions" -> getAllSubscriptions(fl, val)
                    [] fn = "subscribeToEvent" -> subscribeToEvent(fl, val)
                    [] OTHER -> subscribeToStreamUpdates(fl, val)

\* What Twitch answers to a request it accepts the token of: the payloads
\* told apart by what the code reads in them.
\*   USERS   found / none: data holds the user / is empty
\*   STATUS  a page of the subscriptions of a type: it lists the id with that
\*           status, or not (absent: and has no cursor, last: and has an empty
\*           cursor, more: and has a cursor)
\*   DELETE  ok: deleted; gone: 404, Twitch knows no subscription with the id
\*   CREATE  created: the new subscription; 409: conflict
\*   LIST    a page of all subscriptions: empty, all (the subscriptions of
\*           Snapshot), more: an empty page with a cursor
\*   TOKEN   token: a new app token; 401: the exchange is refused with status 401
ApiAnswers(endpoint) ==
    CASE endpoint = "USERS" -> {"found", "none"}
      [] endpoint = "STATUS" ->
            {"enabled", Pending, "authorization_revoked", "absent", "last", "more"}
      [] endpoint = "DELETE" -> {"ok", "gone"}
      [] endpoint = "CREATE" -> {"created", "409"}
      [] endpoint = "LIST" -> {"empty", "all", "more"}
      [] endpoint = "TOKEN" -> {"token", "401"}

\* fail: another status that is not 2xx; neterr: fetch rejects.
Failures == {"fail", "neterr"}

AllAnswers ==
    UNION {ApiAnswers(e) : e \in {"USERS", "STATUS", "DELETE", "CREATE", "LIST", "TOKEN"}}
        \cup Failures \cup {"401"}

\* The innermost activation of flow f is fn suspended at one of pcs.
Suspended(f, fn, pcs) ==
    /\ flows[f].stack # <<>>
    /\ Top(flows[f]).fn = fn
    /\ Top(flows[f]).pc \in pcs

\* subscribeToStreamUpdates(login) is called (Bot.onReady, for every login of
\* the configuration, none awaited).
Subscribe(login) ==
    /\ flows[login].outcome = "idle"
    /\ flows' = [flows EXCEPT ![login] =
            Go([IdleFlow EXCEPT !.outcome = "running",
                                !.stack = <<[NewFrame("subscribeToStreamUpdates") EXCEPT !.x = login]>>],
               "call", UndefinedValue)]
    /\ UNCHANGED <<appToken, subs, validTokens, nextToken, nextSub, ncalls, gatewayVars>>

\* fetch(url, options) of makeApiCall resolves.  Twitch answers 401 to a request
\* of the API whose token it does not accept; the token endpoint takes no token
\* and answers what it will.
FetchDone(f, ans) ==
    /\ Suspended(f, "makeApiCall", {"fetch"})
    /\ ncalls < MaxCalls
    /\ LET top == Top(flows[f])
           accepted == top.x = "TOKEN" \/ top.tok \in validTokens
           n == CASE ans \in {"created", "all"} -> nextSub [] ans = "token" -> nextToken
                  [] OTHER -> 0
           fl == [flows[f] EXCEPT !.failed = @ \/ ans \in Failures]
       IN  /\ ans \in (IF accepted THEN ApiAnswers(top.x) ELSE {"401"}) \cup Failures
           /\ flows' = [flows EXCEPT ![f] =
                  IF ans = "neterr" THEN Go(fl, "throw", Value("FetchError", 0))
                  ELSE Go(fl, "return", Value(ans, n))]
           /\ nextSub' = IF ans = "created" THEN nextSub + 1 ELSE nextSub
           /\ nextToken' = IF ans = "token" THEN nextToken + 1 ELSE nextToken
           /\ validTokens' = IF ans = "token" THEN validTokens \cup {nextToken} ELSE validTokens
    /\ ncalls' = ncalls + 1
    /\ UNCHANGED <<appToken, subs, gatewayVars>>

\* fetch of validateAppToken resolves: res.ok tells whether Twitch accepts the token.
ValidateDone(f, ans) ==
    /\ Suspended(f, "validateAppToken", {"fetch"})
    /\ ncalls < MaxCalls
    /\ LET top == Top(flows[f])
           ok == IF ans = "fail" THEN "false"
                 ELSE IF top.tok \in validTokens THEN "true" ELSE "false"
       IN  flows' = [flows EXCEPT ![f] =
               IF ans = "neterr" THEN Go(flows[f], "throw", Value("FetchError", 0))
               ELSE Go(flows[f], "return", Value(ok, 0))]
    /\ ncalls' = ncalls + 1
    /\ UNCHANGED <<appToken, subs, validTokens, nextToken, nextSub, gatewayVars>>

\* this._cache.get('appToken') resolves (line 104).
TokenGetDone(f) ==
    /\ Suspended(f, "getAppToken", {"get"})
    /\ flows' = [flows EXCEPT ![f] = Go(flows[f], "return", Value("token", appToken))]
    /\ UNCHANGED <<appToken, subs, validTokens, nextToken, nextSub, ncalls, gatewayVars>>

\* this._cache.set('appToken', token) resolves (line 125).
TokenSetDone(f) ==
    /\ Suspended(f, "getAppToken", {"set"})
    /\ appToken' = Top(flows[f]).k
    /\ flows' = [flows EXCEPT ![f] = Go(flows[f], "return", UndefinedValue)]
    /\ UNCHANGED <<subs, validTokens, nextToken, nextSub, ncalls, gatewayVars>>

\* this._cache.get(broadcasterID) resolves (line 197).
SubsGetDone(f) ==
    /\ Suspended(f, "subscribeToEvent", {"cacheGet"})
    /\ flows' = [flows EXCEPT ![f] =
            Go(flows[f], "return", [Value("entry", 0) EXCEPT !.entry = subs[Top(flows[f]).y]])]
    /\ UNCHANGED <<appToken, subs, validTokens, nextToken, nextSub, ncalls, gatewayVars>>

\* this._cache.set(broadcasterID, cachedSubscriptions) resolves (lines 212, 234).
SubsSetDone(f) ==
    /\ Suspended(f, "subscribeToEvent", {"evict", "store"})
    /\ subs' = [subs EXCEPT ![Top(flows[f]).y] = [def |-> TRUE, recs |-> Top(flows[f]).loc]]
    /\ flows' = [flows EXCEPT ![f] =
            Go([flows[f] EXCEPT !.writes = @ + 1, !.step.writes = @ + 1], "return", UndefinedValue)]
    /\ UNCHANGED <<appToken, validTokens, nextToken, nextSub, ncalls, gatewayVars>>

\* this._cache.set(broadcasterId, result[broadcasterId]) of getAllSubscriptions
\* resolves (line 301).
SnapshotSetDone(f) ==
    /\ Suspended(f, "getAllSubscriptions", {"store"})
    /\ LET b == SnapshotOrder[Top(flows[f]).n]
       IN  subs' = [subs EXCEPT ![b] = [def |-> TRUE, recs |-> Snapshot(b)]]
    /\ flows' = [flows EXCEPT ![f] =
            Go([flows[f] EXCEPT !.writes = @ + 1, !.step.writes = @ + 1], "return", UndefinedValue)]
    /\ UNCHANGED <<appToken, validTokens, nextToken, nextSub, ncalls, gatewayVars>>

\* ------------------------------------------------------------ the system
\* Alerts a previous run of the process may have left behind: posted, their
\* ids persisted, the role granted.
StaleAlerts == {[id |-> 1, login |-> "foo"], [id |-> 2, login |-> "bar"]}
BootCaches == {{}, StaleAlerts}

NoRequest == [req |-> Request("/online", "missing", "other", "b1", ""), trace |-> <<>>]

\* The gateway and the tracker when the StreamManager is constructed and the
\* webserver listens (Bot.onReady).
GatewayInit ==
    /\ bootCache \in BootCaches
    /\ cache = bootCache
    /\ channel = bootCache
    /\ roles = {m.login : m \in bootCache}
    /\ onlineStreams = [b \in Broadcasters |-> NoStream]
    /\ cleanup = StartCleanup(bootCache)
    /\ roleOps = [l \in Logins |->
                    [grant |-> 0,
                     revoke |-> IF l \in StartCleanup(bootCache).revokes THEN 1 ELSE 0]]
    /\ handlers = [i \in Slots |-> IdleHandler]
    /\ nreq = 0
    /\ nextId = Cardinality(StaleAlerts) + 1
    /\ lastCategory = [b \in Broadcasters |-> ""]
    /\ warnings = [b \in Broadcasters |-> 0]
    /\ roleFailed = FALSE
    /\ lastReq = NoRequest

\* The registry of a TwitchApi just constructed: no call made yet.  The store
\* holds what earlier runs of the process left in it: tokenCached, an app token
\* that Twitch still accepts (tokenValid) or not; subsCached, the subscriptions
\* of every broadcaster, enabled when they were stored.
RegistryInit(tokenCached, tokenValid, subsCached) ==
    /\ flows = [l \in Logins |-> IdleFlow]
    /\ appToken = IF tokenCached THEN 1 ELSE 0
    /\ validTokens = IF tokenCached /\ tokenValid THEN {1} ELSE {}
    /\ nextToken = 2
    /\ subs = [b \in Broadcasters |->
                 IF subsCached THEN [def |-> TRUE, recs |-> Snapshot(b)] ELSE NoEntry]
    /\ nextSub = Cardinality(Broadcasters) * Len(EventTypes) + 1
    /\ ncalls = 0

\* The process before its first run has subscribed: an empty registry store.
Init == GatewayInit /\ RegistryInit(FALSE, FALSE, FALSE)

\* The process started on a store earlier runs have used.
InitRegistry ==
    /\ GatewayInit
    /\ bootCache = {}
    /\ \E tokenCached \in BOOLEAN, tokenValid \in BOOLEAN, subsCached \in BOOLEAN :
            /\ tokenCached \/ ~tokenValid
            /\ RegistryInit(tokenCached, tokenValid, subsCached)

\* The category_name of the body: stream.online and stream.offline events have none.
BodyCategories(route) == IF route = "/update" THEN Categories ELSE {""}

\* A notification Twitch delivers.
Notify ==
    \E route \in Routes, b \in Broadcasters :
        \E category \in BodyCategories(route) :
            HandleRequest(route, "valid", "notification", b, category)

\* Any request on one of the three routes.
Receive ==
    \E route \in Routes, kind \in SignatureKinds, type \in MessageTypes, b \in Broadcasters :
        \E category \in BodyCategories(route) :
            HandleRequest(route, kind, type, b, category)

Resolve ==
    \/ \E i \in Slots, chanOk \in BOOLEAN, delOk \in BOOLEAN : DeleteMessageDone(i, chanOk, delOk)
    \/ \E i \in Slots : CacheDeleteDone(i)
    \/ \E i \in Slots, result \in StreamInfoResults : GetStreamInfoDone(i, result)
    \/ \E i \in Slots, chanOk \in BOOLEAN, sendOk \in BOOLEAN : SendDone(i, chanOk, sendOk)
    \/ \E i \in Slots : CacheSetDone(i)
    \/ \E login \in Logins, op \in {"grant", "revoke"}, ok \in BOOLEAN : RoleCallDone(login, op, ok)
    \/ CleanupClearDone

Next == Notify \/ Resolve

Spec == Init /\ [][Next]_vars

NextGateway == Receive \/ Resolve

SpecGateway == Init /\ [][NextGateway]_vars

\* The continuations of the registry's awaited calls.
ResolveRegistry ==
    \/ \E f \in Logins, ans \in AllAnswers : FetchDone(f, ans)
    \/ \E f \in Logins, ans \in {"answer", "fail", "neterr"} : ValidateDone(f, ans)
    \/ \E f \in Logins : TokenGetDone(f)
    \/ \E f \in Logins : TokenSetDone(f)
    \/ \E f \in Logins : SubsGetDone(f)
    \/ \E f \in Logins : SubsSetDone(f)
    \/ \E f \in Logins : SnapshotSetDone(f)

NextRegistry == (\E login \in Logins : Subscribe(login)) \/ ResolveRegistry

SpecRegistry == InitRegistry /\ [][NextRegistry]_vars

\* addStreamer.execute calls subscribeToStreamUpdates(login) and does not wait
\* for the calls of the startup loop: the run f is one the startup loop has not
\* started.
AddStreamer(f, login) ==
    /\ flows[f].outcome = "idle"
    /\ flows' = [flows EXCEPT ![f] =
            Go([IdleFlow EXCEPT !.outcome = "running",
                                !.stack = <<[NewFrame("subscribeToStreamUpdates") EXCEPT !.x = login]>>],
               "call", UndefinedValue)]
    /\ UNCHANGED <<appToken, subs, validTokens, nextToken, nextSub, ncalls, gatewayVars>>

\* The login the startup loop and the admin command both subscribe.
SharedLogin == "foo"

\* The registry with one login configured and the addstreamer command run for
\* the same login: the startup loop's call and the command's call.
NextOverlap ==
    \/ Subscribe(SharedLogin)
    \/ \E f \in Logins \ {SharedLogin} : AddStreamer(f, SharedLogin)
    \/ ResolveRegistry

SpecOverlap == InitRegistry /\ [][NextOverlap]_vars

\* ---------------------------------------------------------------- claims
\* Alerts of broadcaster b posted by this run of the process and still in the channel.
LiveAlerts(b) == {m \in channel : m.login = Login(b) /\ m \notin StaleAlerts}

\* No handler of b has met a failing call to Twitch or Discord.
NoFailure(b) == \A i \in Slots : handlers[i].b = b => ~handlers[i].fail

\* No role call for b's login is pending.
NoRoleCall(b) == roleOps[Login(b)].grant = 0 /\ roleOps[Login(b)].revoke = 0

\* C1: whenever no handler is in flight for a broadcaster, its StreamEvent (there
\* is at most one, _onlineStreams being keyed by the id) has messageId set if and
\* only if the category last reported for it matches the configured category,
\* ignoring case.  Stated for the runs in which no call to Twitch or Discord fails.
C1_AlertIffLastCategory ==
    \A b \in Broadcasters :
        (~InFlight(b) /\ NoFailure(b) /\ onlineStreams[b] # NoStream)
            => ((onlineStreams[b].messageId # Undefined) <=> CategoryMatches(lastCategory[b]))

\* C2: once all handlers of a broadcaster have finished, at most one alert of it
\* is posted and not deleted.  Stated for the runs in which no call fails.
C2_AtMostOneAlert ==
    \A b \in Broadcasters :
        (~InFlight(b) /\ NoFailure(b)) => Cardinality(LiveAlerts(b)) <= 1

\* C4: no two handlers of the same broadcaster are in progress at the same time.
C4_Serialized ==
    \A i, j \in Slots :
        (i # j /\ Active(handlers[i]) /\ Active(handlers[j])) => handlers[i].b # handlers[j].b

\* Every handler of b ran alone: b's notifications were handled one after the other.
Sequential(b) == \A i \in Slots : handlers[i].b = b => handlers[i].alone

\* C5: with role calls that succeed, whenever no handler and no role call is
\* pending for a broadcaster, it holds the role only if its StreamEvent has
\* messageId set.  Stated for the broadcasters that hold no role when the process
\* starts and for the runs in which no call fails and the broadcaster's
\* notifications do not overlap.
C5_RoleOnlyIfAlerted ==
    \A b \in Broadcasters :
        (/\ ~InFlight(b) /\ NoRoleCall(b) /\ ~roleFailed /\ NoFailure(b) /\ Sequential(b)
         /\ Login(b) \notin {m.login : m \in bootCache}
         /\ Login(b) \in roles)
            => onlineStreams[b].messageId # Undefined

\* C6: the startup cleanup issues one delete-message attempt per persisted
\* message id and one role-revoke attempt per stored login, and the persisted set
\* is empty when it has finished.
C6_CleanupAttempts ==
    cleanup.pc = "done" =>
        /\ {k[2] : k \in cleanup.deletes} = {m.id : m \in bootCache}
        /\ cleanup.revokes = {m.login : m \in bootCache}
        /\ (nreq = 0 => cache = {})

\* C7: at every point every alert that is posted and not deleted has its id in
\* the persisted alert-id set.
C7_PostedIsPersisted == \A m \in channel : m \in cache

\* Slots i < j hold the only two notifications of b so far, both stream.online,
\* the second started after the first had completed with an alert posted for the
\* target category.
OnlineTwice(b, i, j) ==
    /\ i < j
    /\ {k \in Slots : handlers[k].b = b} = {i, j}
    /\ handlers[i].kind = "online" /\ handlers[j].kind = "online"
    /\ handlers[i].alone /\ handlers[j].alone
    /\ handlers[i].pc = "done" /\ CategoryMatches(handlers[i].info)

\* The second of the two has completed and found the target category again.
SecondDone(j) == handlers[j].pc = "done" /\ CategoryMatches(handlers[j].info)

ExpectedSignature(req) ==
    <<"sha256=", getHmac(Secret, <<req.id, req.timestamp, req.body>>)>>

Invocations(trace) == SelectSeq(trace, LAMBDA e : e.ev = "invoke")

\* C8: a request whose signature header is missing or differs in any way
\* (content or length) from the expected one is answered with 403 and invokes no
\* handler.
C8_BadSignature403 ==
    (nreq > 0 /\ lastReq.req.signature # ExpectedSignature(lastReq.req)) =>
        /\ lastReq.trace = <<Status(403, "Forbidden")>>

\* C9: a request invokes a tracker handler exactly when its signature is the
\* expected one and its message type is notification; it then invokes the handler
\* of its route, once, for the broadcaster of its body, and starts no other
\* handler; every such request does, a repeated one included.
C9_DispatchOnce ==
    [][nreq' # nreq =>
        LET req == lastReq'.req
            i == nreq'
            verified == req.signature = ExpectedSignature(req) /\ req.type = "notification"
            kind == CASE req.route = "/online" -> "online"
                      [] req.route = "/offline" -> "offline"
                      [] req.route = "/update" -> "update"
        IN  /\ (handlers'[i].pc # "idle") <=> verified
            /\ verified => /\ handlers'[i].kind = kind
                           /\ handlers'[i].b = req.body.event.broadcaster_user_id
                           /\ Invocations(lastReq'.trace) = <<Invoke(kind)>>
            /\ ~verified => Invocations(lastReq'.trace) = <<>>
            /\ \A j \in Slots \ {i} : handlers'[j].kind = handlers[j].kind
    ]_vars

\* C9 witness: the same notification delivered twice has started two handlers.
C9_Witness ==
    /\ nreq = 2
    /\ handlers[1].kind = "update" /\ handlers[2].kind = "update"
    /\ handlers[1].b = handlers[2].b /\ handlers[1].category = handlers[2].category

\* C10: a verified notification is answered with 200, sent before the handler is
\* invoked, and that stays its only response whatever becomes of the handler.
C10_Always200 ==
    /\ \A i \in Slots : handlers[i].pc # "idle" => handlers[i].res = <<Status(200, "OK")>>
    /\ (nreq > 0 /\ lastReq.req.signature = ExpectedSignature(lastReq.req)
                 /\ lastReq.req.type = "notification")
         => (/\ Len(lastReq.trace) = 2
             /\ lastReq.trace[1] = Status(200, "OK")
             /\ lastReq.trace[2].ev = "invoke")

\* C10 witness: a handler has failed and its request has the one response 200.
C10_Witness ==
    \E i \in Slots : handlers[i].pc = "rejected" /\ handlers[i].res = <<Status(200, "OK")>>

\* The request is verified: it carries the expected signature.
Verified(req) == req.signature = ExpectedSignature(req)

Responses(trace) == SelectSeq(trace, LAMBDA e : e.ev = "response")

\* C11: a verified request of type webhook_callback_verification is answered
\* with status 200 and the challenge string of its body as the body, invokes no
\* handler and changes nothing in the tracker or in the registry.
C11_ChallengeEchoed ==
    [][(nreq' # nreq /\ Verified(lastReq'.req)
          /\ lastReq'.req.type = "webhook_callback_verification")
        => /\ lastReq'.trace = <<Status(200, lastReq'.req.body.challenge)>>
           /\ UNCHANGED <<trackerVars, handlers, registryVars>>
    ]_vars

\* C11 witness: a verified handshake has been answered with its challenge.
C11_Witness ==
    /\ nreq > 0 /\ Verified(lastReq.req)
    /\ lastReq.req.type = "webhook_callback_verification"
    /\ lastReq.trace = <<Status(200, "challenge-string")>>

\* C12: a verified request of type revocation is answered with status 204 and
\* nothing else happens: no handler is invoked, and no StreamEvent, persisted
\* alert id or cached subscription is created, changed or removed.
C12_RevocationNoChange ==
    [][(nreq' # nreq /\ Verified(lastReq'.req) /\ lastReq'.req.type = "revocation")
        => /\ Len(lastReq'.trace) = 1
           /\ lastReq'.trace[1].ev = "response" /\ lastReq'.trace[1].status = 204
           /\ handlers' = handlers
           /\ onlineStreams' = onlineStreams /\ cache' = cache /\ subs' = subs
    ]_vars

\* C12 witness: a verified revocation has been answered with 204.
C12_Witness ==
    /\ nreq > 0 /\ Verified(lastReq.req)
    /\ lastReq.req.type = "revocation"
    /\ Responses(lastReq.trace) = <<Status(204, "No Content")>>

\* C13: every request on one of the three routes gets exactly one response, and
\* its status is 403 when the signature is missing or not the expected one, 204
\* for a revocation and 200 for a notification, a handshake or an unknown type.
C13_OneResponse ==
    nreq > 0 =>
        LET req == lastReq.req
            sent == Responses(lastReq.trace)
        IN  /\ Len(sent) = 1
            /\ sent[1].status = (IF ~Verified(req) THEN 403
                                 ELSE IF req.type = "revocation" THEN 204 ELSE 200)

\* C14: no failure met while a notification is handled is left unhandled: the
\* promise of no handler is ever rejected.
C14_NoUnhandledFailure ==
    \A i \in Slots : handlers[i].pc # "rejected"

\* The calls of one kind in the log of a step.
Calls(log, op) == {i \in DOMAIN log : log[i].op = op}

\* The step of flow f that has just completed found its record cached as
\* enabled and Twitch reported not_exists for the id.
StaleEnabled(p) == p.had.status = "enabled" /\ p.remote = "not_exists"

C16_AtMostTwoCreates ==
    \A f \in Logins : Cardinality(Calls(flows[f].step.log, "create")) <= 2

\* The activations of makeApiCall in progress.
ApiCalls == {fr \in UNION {{fl.stack[i] : i \in DOMAIN fl.stack} : fl \in {flows[f] : f \in Logins}} :
                fr.fn = "makeApiCall"}

\* C17: a call answered with 401 leads to one token refresh and one retry, and
\* the 401 does not reach the caller: no call of makeApiCall asks for a second
\* token refresh and none gives up because of 401 answers.
C17_OneRefreshOneRetry ==
    /\ \A fr \in ApiCalls : fr.m <= 1
    /\ \A f \in Logins : ~flows[f].authFailed

\* C18: getAppToken(false) returns the cached token without a call to Twitch when
\* one is cached; getAppToken(true) then makes a validation call and returns the
\* cached token only if that call reported it valid; in the other cases, and
\* when no token is cached, the token returned is a new one obtained from the
\* token endpoint and stored as the cached token.
C18_GetToken ==
    [][\A f \in Logins :
        LET r == flows'[f].tokenRun
        IN  r # flows[f].tokenRun =>
                /\ (r.validate = "false" /\ r.cached # 0) => (r.ret = r.cached /\ r.calls = 0)
                /\ (r.validate = "true" /\ r.cached # 0) =>
                        /\ r.checked # 0
                        /\ r.ret = r.cached => (r.valid = "true" /\ r.checked = r.cached)
                /\ (r.cached = 0 \/ (r.validate = "true" /\ r.valid # "true")) =>
                        /\ r.new # 0 /\ r.new # r.cached
                        /\ r.ret = r.new
                        /\ appToken' = r.new
    ]_vars

\* C19: an upstream call of ensureSubscribed that fails with a status that is
\* not 2xx, 401 or 409, or with a network failure, ends the operation without a
\* result: no exception escapes it.
C19_NoResultNoException ==
    \A f \in Logins : flows[f].failed => flows[f].outcome # "rejected"

\* C20: when the lookup of the login finds no user, ensureSubscribed ends for
\* that entity: it makes no status, create, delete or list call, and it leaves
\* every cached subscription as it was.
C20_UnknownEntity ==
    [][\A f \in Logins :
        flows'[f].unknown =>
            /\ flows'[f].outcome = "done" /\ flows'[f].stack = <<>>
            /\ flows'[f].step = NoStep /\ flows'[f].writes = 0
            /\ ~flows[f].unknown => subs' = subs
    ]_vars

\* C20 witness: a lookup has found no user and the flow has ended.
C20_Witness ==
    \E f \in Logins : flows[f].unknown /\ flows[f].outcome = "done" /\ ncalls > 0

\* C21: a step that finds a record cached for its event type and is told by
\* Twitch that the subscription is enabled or pending verification makes no
\* create and no delete call (its only call is the status call), writes nothing
\* to the store and leaves the cached record as it found it.
C21_LiveRecordKept ==
    [][\A f \in Logins :
        LET p == flows'[f].prev
        IN  (p # flows[f].prev /\ p.had # NoRecord /\ p.remote \in {"enabled", Pending}) =>
                /\ p.log = <<[op |-> "status", n |-> p.had.id]>>
                /\ p.created = NoRecord
                /\ p.writes = 0
                /\ subs'[UserId(f)].recs[p.type] = p.had
    ]_vars

\* C21 witness: a step has ended on a cached record that Twitch reported as
\* pending verification.
C21_Witness ==
    \E f \in Logins :
        /\ flows[f].prev.had # NoRecord
        /\ flows[f].prev.remote = Pending
        /\ flows[f].prev.writes = 0
        /\ subs[UserId(f)].recs[flows[f].prev.type] = flows[f].prev.had

\* The cached record of a type in the entry of a broadcaster (none when nothing
\* is cached for the broadcaster).
CachedRecord(entry, t) == IF entry.def THEN entry.recs[t] ELSE NoRecord

C23_CacheEqualsSnapshot ==
    [][\A f \in Logins :
        flows'[f].lists # flows[f].lists =>
            \A b \in Broadcasters :
                IF flows'[f].listed = "all"
                THEN subs'[b].def /\ subs'[b].recs = Snapshot(b)
                ELSE \A t \in Types : CachedRecord(subs'[b], t) = NoRecord
    ]_vars

\* The handler has done op.
Did(h, op) == \E k \in DOMAIN h.log : h.log[k] = op

\* No notification for the broadcaster of handler i came after it.
Latest(i) == \A j \in Slots : j > i => handlers[j].b # handlers[i].b

\* Handler j is the one of the next notification for the broadcaster of handler i.
NextAfter(i, j) ==
    /\ j > i /\ handlers[j].b = handlers[i].b
    /\ \A k \in Slots : (i < k /\ k < j) => handlers[k].b # handlers[i].b

\* C24: once onChannelUpdate has handled an update for a broadcaster with a
\* StreamEvent (no other notification of the broadcaster in progress meanwhile,
\* none after it), the StreamEvent holds the category of the update; and
\* messageId is unset when an alert stood and the category does not match.
C24_CategoryRecorded ==
    \A i \in Slots :
        LET h == handlers[i]
        IN  (h.kind = "update" /\ h.pc = "done" /\ h.alone /\ Latest(i) /\ h.from # "absent") =>
                /\ onlineStreams[h.b] # NoStream
                /\ onlineStreams[h.b].category = h.category
                /\ (h.from = "alerted" /\ ~CategoryMatches(h.category)) =>
                        onlineStreams[h.b].messageId = Undefined

\* C25: when onStreamOffline ends, the broadcaster has no StreamEvent, whether
\* it had a messageId or not; the handler has attempted a message delete exactly
\* when the StreamEvent it found had a messageId, once, and then, whether the
\* delete failed or not, the id is no longer in the store.
C25_OfflineRemoves ==
    [][\A i \in Slots :
        LET h == handlers'[i]
        IN  (h.kind = "offline" /\ h.pc = "done" /\ handlers[i].pc # "done") =>
                /\ onlineStreams'[h.b] = NoStream
                /\ h.log = CASE h.from = "alerted" -> <<"delete", "unpersist", "revoke">>
                              [] h.from = "untracked" -> <<"revoke">>
                              [] OTHER -> <<>>
                /\ h.from = "alerted" =>
                        /\ h.msgID # Undefined
                        /\ ~\E m \in cache' : m.id = h.msgID
    ]_vars

\* C25 witness: onStreamOffline has ended after a message delete that failed;
\* the StreamEvent is gone and the id of the alert is not in the store.
C25_Witness ==
    \E i \in Slots :
        LET h == handlers[i]
        IN  /\ h.kind = "offline" /\ h.pc = "done" /\ h.from = "alerted" /\ h.fail
            /\ \E m \in channel : m.id = h.msgID
            /\ ~\E m \in cache : m.id = h.msgID
            /\ onlineStreams[h.b] = NoStream

\* onStreamOnline has ended and getStreamInfo gave it nothing (undefined or an
\* exception).
FetchFailed(h) == h.kind = "online" /\ h.pc \in {"done", "rejected"} /\ h.info = ""

\* C26: an onStreamOnline whose getStreamInfo fails posts no alert, stores no id
\* and grants no role, and (no other notification of the broadcaster in progress
\* meanwhile) leaves the broadcaster without StreamEvent, also when it found
\* one; the onChannelUpdate or onStreamOffline of the next notification of the
\* broadcaster then finds no StreamEvent, sends and deletes nothing and leaves
\* the broadcaster without StreamEvent.
C26_FailedFetch ==
    \A i \in Slots :
        LET h == handlers[i]
        IN  FetchFailed(h) =>
                /\ h.sent = Undefined
                /\ ~Did(h, "send") /\ ~Did(h, "persist") /\ ~Did(h, "grant")
                /\ (h.alone /\ Latest(i)) => onlineStreams[h.b] = NoStream
                /\ \A j \in Slots :
                        (h.alone /\ NextAfter(i, j) /\ handlers[j].kind \in {"update", "offline"}) =>
                            /\ handlers[j].from = "absent"
                            /\ handlers[j].pc = "done"
                            /\ handlers[j].log = <<>>
                            /\ (handlers[j].alone /\ Latest(j)) => onlineStreams[h.b] = NoStream

\* C26 witness: after an onStreamOnline whose getStreamInfo failed, an update to
\* the target category was handled for the broadcaster and nothing was done.
C26_Witness ==
    \E i, j \in Slots :
        /\ FetchFailed(handlers[i]) /\ handlers[i].alone /\ NextAfter(i, j)
        /\ handlers[j].kind = "update" /\ CategoryMatches(handlers[j].category)
        /\ handlers[j].pc = "done" /\ handlers[j].log = <<>>
        /\ onlineStreams[handlers[i].b] = NoStream
        /\ channel = bootCache

\* C27: an onStreamOnline that finds a StreamEvent with a posted alert (and so
\* with the role granted) has attempted the delete of the alert and started the
\* revoke of the role before it asks for the stream info.
C27_TeardownFirst ==
    \A i \in Slots :
        LET h == handlers[i]
        IN  (h.kind = "online" /\ h.from = "alerted") =>
                \A f \in DOMAIN h.log :
                    h.log[f] = "fetch" =>
                        /\ \E k \in 1..(f - 1) : h.log[k] = "delete"
                        /\ \E k \in 1..(f - 1) : h.log[k] = "revoke"

\* C28: an onChannelUpdate that finds a posted alert and gets a category that
\* does not match ends having attempted one message delete, removed the id from
\* the store and started one role revoke, and nothing else; no step of it
\* removes the StreamEvent, and (no other notification of the broadcaster in
\* progress meanwhile) the StreamEvent is there at its end with messageId unset.
C28_UpdateAway ==
    [][\A i \in Slots :
        LET h == handlers'[i]
        IN  (h.kind = "update" /\ h.from = "alerted" /\ ~CategoryMatches(h.category)) =>
                /\ (h.pc # handlers[i].pc /\ onlineStreams[h.b] # NoStream) =>
                        onlineStreams'[h.b] # NoStream
                /\ (h.pc = "done" /\ handlers[i].pc # "done") =>
                        /\ h.log = <<"delete", "unpersist", "revoke">>
                        /\ ~\E m \in cache' : m.id = h.msgID
                        /\ roleOps'[Login(h.b)]["revoke"] = roleOps[Login(h.b)]["revoke"] + 1
                        /\ h.alone => /\ onlineStreams'[h.b] # NoStream
                                      /\ onlineStreams'[h.b].messageId = Undefined
    ]_vars

\* C28 witness: such an update has been handled: the alert is deleted, its id is
\* not in the store, and the StreamEvent is there without messageId.
C28_Witness ==
    \E i \in Slots :
        LET h == handlers[i]
        IN  /\ h.kind = "update" /\ h.from = "alerted" /\ ~CategoryMatches(h.category)
            /\ h.pc = "done" /\ h.alone /\ ~h.fail
            /\ ~\E m \in channel \cup cache : m.id = h.msgID
            /\ onlineStreams[h.b] # NoStream /\ onlineStreams[h.b].messageId = Undefined

NothingToDo(h) ==
    \/ h.from = "absent"
    \/ h.from = "alerted" /\ CategoryMatches(h.category)
    \/ h.from = "untracked" /\ ~CategoryMatches(h.category)

\* C30: an onChannelUpdate for a broadcaster with no StreamEvent, or with an
\* alert and a category that still matches, or with a StreamEvent without alert
\* and a category that still does not match, ends at once: it changes neither
\* the StreamEvents nor the store nor the channel, and starts no role call.
C30_UpdateNoOp ==
    [][\A i \in Slots :
        LET h == handlers'[i]
        IN  (handlers[i].pc = "idle" /\ h.kind = "update" /\ NothingToDo(h)) =>
                /\ h.pc = "done" /\ h.log = <<>>
                /\ UNCHANGED <<onlineStreams, cache, channel, roles, roleOps, nextId>>
    ]_vars

\* C30 witness: an update to a category that does not match was handled for a
\* broadcaster with a StreamEvent without alert, and nothing was done.
C30_Witness ==
    \E i \in Slots :
        LET h == handlers[i]
        IN  /\ h.kind = "update" /\ h.from = "untracked" /\ ~CategoryMatches(h.category)
            /\ h.pc = "done" /\ h.log = <<>>
            /\ onlineStreams[h.b] # NoStream /\ onlineStreams[h.b].messageId = Undefined

\* C31: when the last notification received for a broadcaster is stream.offline
\* and every handler started for the broadcaster has finished, the broadcaster
\* has no StreamEvent and no alert that is posted and not deleted, whatever the
\* overlap of the handlers.  Stated for the runs in which no call to Twitch or
\* Discord fails.
C31_OfflineLast ==
    \A i \in Slots :
        LET b == handlers[i].b
        IN  (handlers[i].kind = "offline" /\ Latest(i) /\ ~InFlight(b) /\ NoFailure(b)) =>
                /\ onlineStreams[b] = NoStream
                /\ LiveAlerts(b) = {}

\* The step found a record cached and Twitch reported a status for its id that
\* is neither enabled nor pending verification nor not_exists.
TerminalStatus(p) ==
    p.had # NoRecord /\ p.remote \notin {"", "enabled", Pending, "not_exists"}

\* C32: a step that finds a cached record whose remote status is a terminal
\* failure status sends the delete of the stale id and evicts the cached record
\* before it sends its first create; and no subscription it created exists
\* remotely beside the stale one: when the create has returned a subscription,
\* the delete was done by Twitch or Twitch no longer knew the stale id.
C32_DeleteBeforeCreate ==
    [][\A f \in Logins :
        LET st == flows'[f].step
            old == flows[f].step
        IN  TerminalStatus(st) =>
                /\ (Calls(st.log, "create") # {} /\ Calls(old.log, "create") = {}) =>
                        /\ st.log = <<[op |-> "status", n |-> st.had.id],
                                      [op |-> "delete", n |-> st.had.id],
                                      [op |-> "create", n |-> 0]>>
                        /\ st.writes = 1
                /\ (st.writes = 1 /\ old.writes = 0) =>
                        /\ Calls(st.log, "create") = {}
                        /\ subs'[UserId(f)].recs[st.type] = NoRecord
                /\ st.created # NoRecord => st.deleted \in {"ok", "gone"}
    ]_vars

\* C33: a run of subscribeToStreamUpdates that has got the id of the user and
\* has ended, fulfilled or rejected, has started the step of every event type:
\* a failure met in the step of one type does not keep the later types from
\* their step.
C33_EveryTypeReconciled ==
    \A f \in Logins :
        (flows[f].outcome \in {"done", "rejected"} /\ flows[f].step.type # "") =>
            flows[f].step.type = EventTypes[Len(EventTypes)]

\* C34: two runs of subscribeToStreamUpdates in progress at the same time never
\* have both sent a create call for the same broadcaster and event type.
C34_NoDuplicateCreate ==
    \A f, g \in Logins :
        (f # g /\ flows[f].outcome = "running" /\ flows[g].outcome = "running") =>
            flows[f].creates \cap flows[g].creates = {}

\* C35: once every run of subscribeToStreamUpdates has ended, every subscription
\* a create call returned (none of them is deleted afterwards) has its id
\* cached under its broadcaster and event type.  Stated for the subscriptions
\* created after every list of all subscriptions was answered: those no listing
\* could contain.
C35_NoLostRecord ==
    (\A f \in Logins : flows[f].outcome \in {"idle", "done", "rejected"}) =>
        \A f \in Logins : \A r \in flows[f].made :
            (\A g \in Logins : flows[g].listedAt <= r.id) =>
                subs[r.b].recs[r.type].id = r.id

\* C36: when the _cache.clear() of the startup cleanup resolves, every entry of
\* the store that a handler has added since the process started is kept; and
\* the cleanup deletes no message other than those whose ids were in the store
\* when the process started.
C36_CleanupKeepsNewAlerts ==
    [][(cleanup.pc = "clear" /\ cleanup'.pc = "done") =>
            /\ \A m \in cache : m \notin bootCache => m \in cache'
            /\ \A k \in cleanup.deletes : k[2] \in {m.id : m \in bootCache}
    ]_vars

\* C37: the call of the API that makeApiCall sends again after a 401 and the
\* token refresh it led to carries the token that refresh returned.
C37_RetryWithNewToken ==
    \A f \in Logins :
        (/\ Suspended(f, "makeApiCall", {"fetch"})
         /\ Top(flows[f]).x # "TOKEN" /\ Top(flows[f]).n = 1) =>
            Top(flows[f]).tok = flows[f].tokenRun.ret

\* The calls of the token endpoint in progress in a run, one inside the other.
Exchanges(fl) ==
    {i \in DOMAIN fl.stack : fl.stack[i].fn = "makeApiCall" /\ fl.stack[i].x = "TOKEN"}

\* C38: whatever the token endpoint answers, a call of getAppToken does not
\* nest token exchanges without bound: at most one exchange is in progress
\* inside another (one retry); and a cached token is never replaced by an empty
\* value.
C38_BoundedExchange ==
    [][/\ \A f \in Logins : Cardinality(Exchanges(flows'[f])) <= 2
       /\ appToken # 0 => appToken' # 0
    ]_vars

\* Page i of those served to the status lookup of a step lists the id looked for.
Lists(p, i) == \E k \in DOMAIN StatusPage(p.pages[i], p.had.id).data :
                    StatusPage(p.pages[i], p.had.id).data[k].id = p.had.id

\* Page i has no cursor to follow.
LastPage(p, i) == StatusPage(p.pages[i], p.had.id).cursor \in {"undefined", ""}

\* C39: when the status lookup of a step has returned, it has asked for the
\* pages one after the other up to the first that lists the id or has no cursor
\* (absent or empty) and for none after it; it returned the status the listing
\* page gives for the id, and not_exists exactly when no page it was served lists
\* the id.
C39_StatusLookup ==
    \A f \in Logins :
        LET p == flows[f].step
            n == Len(p.pages)
        IN  p.remote # "" =>
                /\ n >= 1
                /\ \A i \in 1..(n - 1) : ~Lists(p, i) /\ ~LastPage(p, i)
                /\ Lists(p, n) \/ LastPage(p, n)
                /\ Lists(p, n) =>
                        \E k \in DOMAIN StatusPage(p.pages[n], p.had.id).data :
                            StatusPage(p.pages[n], p.had.id).data[k] =
                                [id |-> p.had.id, status |-> p.remote]
                /\ (p.remote = "not_exists") <=> (\A i \in 1..n : ~Lists(p, i))

\* C39 witness: a lookup has followed the cursor to a second page, which has an
\* empty cursor and does not list the id, and has returned not_exists.
C39_Witness ==
    \E f \in Logins :
        /\ flows[f].step.pages = <<"more", "last">>
        /\ flows[f].step.remote = "not_exists"

====
